---- MODULE Spec2Model ----
(***************************************************************************)
(* Model of tracing-core's field module (src/tracing-core/src/field.rs):   *)
(* FieldSet, Field, Value/Visit double dispatch and ValueSet.              *)
(*                                                                         *)
(* The specifications share the variables:                                 *)
(*   Spec          a ValueSet built by FieldSet::value_set and the calls   *)
(*                 made on it (record, len, is_empty, callsite);           *)
(*   SpecFieldSet  a FieldSet and the calls made on it and on the Fields   *)
(*                 obtained from it (field, contains, eq, hash);           *)
(*   SpecFormat    Spec with the Debug and Display impls of ValueSet;      *)
(*   SpecValue     Spec on ValueSets over every type implementing Value;   *)
(*   SpecReplay    SpecValue keeping the calls of the record() before;     *)
(*   SpecIter      a FieldSet, its iterator and the Fields obtained.       *)
(* Indices are 0-based as in the source; a TLA+ sequence s holds the       *)
(* element of index i at s[i + 1].  Option<T> is a sequence of length 0    *)
(* (None) or 1 (Some).                                                     *)
(***************************************************************************)
EXTENDS Naturals, Integers, Sequences, FiniteSets, TLC

VARIABLES
    debug_assertions, \* cfg!(debug_assertions): the build mode
    fields,           \* ValueSet.fields / the FieldSet `self`
    values,           \* ValueSet.values: sequence of (Field, Option<Value>)
    pc,               \* "idle", "record" (inside ValueSet::record), "done"
    idx,              \* position of the for loop of ValueSet::record
    recorded,         \* the pairs whose value's record() was invoked
    visited,          \* calls received by the visitor (&mut dyn Visit)
    result,           \* the String the debug-formatting visitor writes to
    debugged,         \* record_debug calls a visitor implementing only
                      \* record_debug receives
    key,              \* Option<Field>: the Field held by the caller
    ret,              \* the last call on the FieldSet/Field/ValueSet API
    history,          \* [tracked, calls]: where tracked, calls holds what
                      \* the record() or iteration completed before delivered
    iter,             \* Option<Iter>: the iterator the caller holds
    yielded           \* the Fields `iter` has yielded

vars == <<debug_assertions, fields, values, pc, idx, recorded, visited,
          result, debugged, key, ret, history, iter, yielded>>

(***************************************************************************)
(* Bounds of the model.                                                    *)
(***************************************************************************)
MaxPairs == 3
MaxBytes == 2
MaxNesting == 2      \* longest enumerated pair sequence of a ValueSet
MaxNames == 2      \* longest enumerated name sequence of a FieldSet
NumCallsites == 2  \* callsite identifiers 1..NumCallsites

BoundedSeq(S, n) == UNION {[1..k -> S] : k \in 0..n}

(***************************************************************************)
(* Callsites and static metadata.                                          *)
(***************************************************************************)
TEST_CALLSITE_1 == 1
TEST_CALLSITE_2 == 2

FieldSet_new(names, callsite) == [names |-> names, callsite |-> callsite]

TEST_META_1 == FieldSet_new(<<"foo", "bar", "baz">>, TEST_CALLSITE_1)
TEST_META_2 == FieldSet_new(<<"foo", "bar", "baz">>, TEST_CALLSITE_2)

FieldSet_callsite(self) == self.callsite

FieldSet_len(self) == Len(self.names)

MkField(i, fs) == [i |-> i, fields |-> FieldSet_new(fs.names, FieldSet_callsite(fs))]

Field_callsite(self) == FieldSet_callsite(self.fields)

Field_name(self) == self.fields.names[self.i + 1]

Field_index(self) == self.i

(***************************************************************************)
(* FieldSet::field: position() of the first equal name, mapped to a Field  *)
(* bound to this FieldSet's names and callsite; None when no name matches. *)
(***************************************************************************)
Position_OneBased(names, name) ==
    IF \E j \in 1..Len(names) : names[j] = name
    THEN <<CHOOSE j \in 1..Len(names) :
               /\ names[j] = name
               /\ \A h \in 1..(j - 1) : names[h] # name>>
    ELSE <<>>

Position(names, name) ==
    IF \E j \in 1..Len(names) : names[j] = name
    THEN <<(CHOOSE j \in 1..Len(names) :
               /\ names[j] = name
               /\ \A h \in 1..(j - 1) : names[h] # name) - 1>>
    ELSE <<>>

FieldSet_field_LastMatch(self, name) ==
    IF \E j \in 1..Len(self.names) : self.names[j] = name
    THEN <<MkField((CHOOSE j \in 1..Len(self.names) :
                       /\ self.names[j] = name
                       /\ \A h \in (j + 1)..Len(self.names) : self.names[h] # name)
                   - 1, self)>>
    ELSE <<>>

FieldSet_field(self, name) ==
    LET pos == Position(self.names, name)
    IN  IF pos = <<>> THEN <<>> ELSE <<MkField(pos[1], self)>>

(***************************************************************************)
(* Field: equality, hashing and cloning.  Field_hash is the sequence of    *)
(* values written to the Hasher.                                           *)
(***************************************************************************)
Field_eq_ByName(self, other) ==
    Field_name(self) = Field_name(other) /\ self.i = other.i

Field_eq(self, other) ==
    Field_callsite(self) = Field_callsite(other) /\ self.i = other.i

Field_hash(self) == <<Field_callsite(self), self.i>>

Field_clone_Shifted(self) == MkField(self.i + 1, self.fields)

Field_clone(self) == MkField(self.i, self.fields)

(***************************************************************************)
(* FieldSet::contains and FieldSet equality.                               *)
(***************************************************************************)
FieldSet_contains(self, field) ==
    Field_callsite(field) = FieldSet_callsite(self) /\ field.i <= FieldSet_len(self)

\* core::ptr::eq(&self, &other) compares the addresses of the two parameter
\* slots `self` and `other`, which are distinct locals.
SelfSlot == "&self"
OtherSlot == "&other"

FieldSet_eq_NamesInBothModes(self, other) ==
    self.callsite = other.callsite /\ self.names = other.names

FieldSet_eq(self, other) ==
    IF SelfSlot = OtherSlot THEN TRUE
    ELSE IF ~debug_assertions THEN self.callsite = other.callsite
    ELSE self.callsite = other.callsite /\ self.names = other.names

(***************************************************************************)
(* Values.  A value is [ty, v]; Empty is the sentinel.  Value_record gives *)
(* the calls the value's record() makes on the visitor, in order.          *)
(***************************************************************************)
Empty == [ty |-> "Empty", v |-> 0]
I32(n) == [ty |-> "i32", v |-> n]

None == <<>>
Some(x) == <<x>>

VisitCall(method, k, v) == [method |-> method, field |-> k, value |-> v]

(***************************************************************************)
(* Primitive values (impl_values!).  An integer value holds its numeric    *)
(* value v; a cast `this as T` is computed on the two's-complement bits    *)
(* (least significant first): the source is extended with its sign bit if  *)
(* its type is signed and with 0 otherwise, cut to the width of T and read  *)
(* back in T's signedness.  usize and isize are 64 bits wide.              *)
(***************************************************************************)
UnsignedTypes == {"u8", "u16", "u32", "usize", "u64", "u128"}
SignedTypes == {"i8", "i16", "i32", "isize", "i64", "i128"}
IntTypes == UnsignedTypes \cup SignedTypes

IntWidth(ty) ==
    CASE ty \in {"u8", "i8"} -> 8
      [] ty \in {"u16", "i16"} -> 16
      [] ty \in {"u32", "i32"} -> 32
      [] ty \in {"u64", "i64", "usize", "isize"} -> 64
      [] ty \in {"u128", "i128"} -> 128

IntSigned(ty) == ty \in SignedTypes

ty_to_nonzero(ty) ==
    CASE ty = "u8" -> "NonZeroU8"
      [] ty = "u16" -> "NonZeroU16"
      [] ty = "u32" -> "NonZeroU32"
      [] ty = "u64" -> "NonZeroU64"
      [] ty = "u128" -> "NonZeroU128"
      [] ty = "usize" -> "NonZeroUsize"
      [] ty = "i8" -> "NonZeroI8"
      [] ty = "i16" -> "NonZeroI16"
      [] ty = "i32" -> "NonZeroI32"
      [] ty = "i64" -> "NonZeroI64"
      [] ty = "i128" -> "NonZeroI128"
      [] ty = "isize" -> "NonZeroIsize"

NonZeroTypes == {ty_to_nonzero(ty) : ty \in IntTypes}

NonZeroBase(nz) == CHOOSE ty \in IntTypes : ty_to_nonzero(ty) = nz

Bit(n, j) == IF j <= 30 THEN (n \div (2 ^ j)) % 2 ELSE IF n < 0 THEN 1 ELSE 0

ToBits(n, w) == [j \in 1..w |-> Bit(n, j - 1)]

RECURSIVE BitsSum(_, _, _)
BitsSum(bits, j, one) ==
    IF j > Len(bits) THEN 0
    ELSE (IF bits[j] = one THEN 2 ^ (j - 1) ELSE 0) + BitsSum(bits, j + 1, one)

FromBits(bits, signed) ==
    IF signed /\ bits[Len(bits)] = 1
    THEN 0 - BitsSum(bits, 1, 0) - 1
    ELSE BitsSum(bits, 1, 1)

Extend(bits, signed, w) ==
    IF w <= Len(bits) THEN SubSeq(bits, 1, w)
    ELSE bits \o [j \in 1..(w - Len(bits)) |->
                     IF signed THEN bits[Len(bits)] ELSE 0]

AsCast(n, from, to) ==
    FromBits(Extend(ToBits(n, IntWidth(from)), IntSigned(from), IntWidth(to)),
             IntSigned(to))

\* A float is [s, e, m]: sign, biased exponent, mantissa bits (most
\* significant first); f32 has 8 + 23 bits, f64 11 + 52.
Zeros(n) == [j \in 1..n |-> 0]

FirstOne(m) == CHOOSE p \in 1..Len(m) : m[p] = 1 /\ \A q \in 1..(p - 1) : m[q] = 0

F32_as_f64(x) ==
    IF x.e = 255 THEN [s |-> x.s, e |-> 2047, m |-> x.m \o Zeros(29)]
    ELSE IF x.e = 0 THEN
        IF x.m = Zeros(23) THEN [s |-> x.s, e |-> 0, m |-> Zeros(52)]
        ELSE LET p == FirstOne(x.m)
             IN  [s |-> x.s, e |-> 1023 - 126 - p,
                  m |-> SubSeq(x.m, p + 1, 23) \o Zeros(29 + p)]
    ELSE [s |-> x.s, e |-> (x.e - 127) + 1023, m |-> x.m \o Zeros(29)]

\* impl_values!: the visitor method and the type the value is cast to
\* (the type itself where the macro arm has no `as`).
impl_values_record_AllSigned(ty) ==
    CASE ty \in IntTypes -> "record_i64"
      [] ty = "bool" -> "record_bool"
      [] ty \in {"f64", "f32"} -> "record_f64"

impl_values_record(ty) ==
    CASE ty \in {"u64", "usize", "u32", "u16", "u8"} -> "record_u64"
      [] ty \in {"i64", "isize", "i32", "i16", "i8"} -> "record_i64"
      [] ty = "u128" -> "record_u128"
      [] ty = "i128" -> "record_i128"
      [] ty = "bool" -> "record_bool"
      [] ty \in {"f64", "f32"} -> "record_f64"

impl_values_as(ty) ==
    CASE ty \in {"usize", "u32", "u16", "u8"} -> "u64"
      [] ty \in {"isize", "i32", "i16", "i8"} -> "i64"
      [] ty \in {"f64", "f32"} -> "f64"
      [] OTHER -> ty

\* The integer values the model records, per type.
IntSamples(ty) ==
    IF ty \in UnsignedTypes
    THEN {0, 1, 57, IF IntWidth(ty) < 32 THEN 2 ^ IntWidth(ty) - 1 ELSE 2147483647}
    ELSE {-1, 0, 1, 2, 3, 57}
         \cup (IF IntWidth(ty) < 32
               THEN {0 - 2 ^ (IntWidth(ty) - 1), 2 ^ (IntWidth(ty) - 1) - 1}
               ELSE {-2147483647, 2147483647})

\* `|this: $value_ty| this as $as_ty` on the values the model records, for
\* the types whose macro arm has an `as`.  (@@ <<>> makes the table an
\* explicit function, computed once.)
as_cast ==
    [ty \in {t \in IntTypes : impl_values_as(t) # t} |->
        [n \in IntSamples(ty) |-> AsCast(n, ty, impl_values_as(ty))] @@ <<>>]
    @@ <<>>

impl_value_op(ty, this) ==
    IF impl_values_as(ty) = ty THEN this
    ELSE IF ty = "f32" THEN F32_as_f64(this)
    ELSE as_cast[ty][this]

\* A str is a sequence of characters; "{}" writes them, "{:?}" writes them
\* quoted and escaped.
RECURSIVE str_Display(_)
str_Display(chars) ==
    IF chars = <<>> THEN "" ELSE Head(chars) \o str_Display(Tail(chars))

escape_debug(c) ==
    CASE c = "\"" -> "\\\""
      [] c = "\\" -> "\\\\"
      [] c = "\n" -> "\\n"
      [] OTHER -> c

str_Debug(chars) ==
    "\"" \o str_Display([j \in 1..Len(chars) |-> escape_debug(chars[j])]) \o "\""

\* The types whose record() forwards to the record() of the value inside.
ErrorMarkerTypes ==
    {"dyn Error + Send", "dyn Error + Sync", "dyn Error + Send + Sync"}
ForwardingTypes == {"Wrapping", "&", "&mut", "Box"}

RECURSIVE Value_record(_, _)
Value_record_EmptyVisits(self, k) ==
    CASE self.ty = "Empty" -> <<VisitCall("record_debug", k, "Empty")>>
      [] self.ty = "i32"   -> <<VisitCall("record_i64", k, self.v)>>

Value_record(self, k) ==
    CASE self.ty = "Empty" -> <<>>
      [] self.ty \in IntTypes \cup {"bool", "f32", "f64"} ->
            <<VisitCall(impl_values_record(self.ty), k,
                        impl_value_op(self.ty, self.v))>>
      [] self.ty \in NonZeroTypes ->
            LET base == NonZeroBase(self.ty)
            IN  <<VisitCall(impl_values_record(base), k,
                            impl_value_op(base, self.v))>>
      [] self.ty \in ForwardingTypes -> Value_record(self.v, k)
      [] self.ty = "str" -> <<VisitCall("record_str", k, self.v)>>
      [] self.ty = "[u8]" -> <<VisitCall("record_bytes", k, self.v)>>
      [] self.ty = "dyn Error" -> <<VisitCall("record_error", k, self.v)>>
      [] self.ty \in ErrorMarkerTypes ->
            Value_record([ty |-> "dyn Error", v |-> self.v], k)
      [] self.ty = "fmt::Arguments" ->
            <<VisitCall("record_debug", k, str_Display(self.v))>>
      [] self.ty = "String" -> <<VisitCall("record_str", k, self.v)>>
      [] self.ty = "DisplayValue" ->
            <<VisitCall("record_debug", k, str_Display(self.v))>>
      [] self.ty = "DebugValue" ->
            <<VisitCall("record_debug", k, str_Debug(self.v))>>

(***************************************************************************)
(* The visitor of the tests: a closure FnMut(&Field, &dyn Debug) that      *)
(* appends "{:?}" of the value to a String.  It implements record_debug    *)
(* only, so every typed method forwards to record_debug with the value.    *)
(***************************************************************************)
Digit(d) == <<"0", "1", "2", "3", "4", "5", "6", "7", "8", "9">>[d + 1]

RECURSIVE ToDecimal(_)
ToDecimal(n) ==
    IF n < 0 THEN "-" \o ToDecimal(0 - n)
    ELSE IF n < 10 THEN Digit(n)
    ELSE ToDecimal(n \div 10) \o Digit(n % 10)

\* "{:?}" of the f64 values the model records.
Mant(prefix, n) == prefix \o Zeros(n - Len(prefix))

F64_debug(x) ==
    IF x.e = 2047
    THEN IF x.m = Zeros(52) THEN (IF x.s = 1 THEN "-inf" ELSE "inf") ELSE "NaN"
    ELSE (IF x.s = 1 THEN "-" ELSE "") \o
         (CASE x.e = 0 /\ x.m = Zeros(52) -> "0.0"
            [] x.e = 0 /\ x.m = Zeros(51) \o <<1>> -> "5e-324"
            [] x.e = 1023 /\ x.m = Mant(<<1>>, 52) -> "1.5"
            [] x.e = 1024 /\ x.m = Mant(<<0, 1, 1>>, 52) -> "2.75"
            [] x.e = 1028 /\ x.m = Mant(<<1, 1, 0, 0, 1>>, 52) -> "57.0"
            [] x.e = 874 /\ x.m = Zeros(52) -> "1.401298464324817e-45"
            [] x.e = 1150 /\ x.m = Mant([j \in 1..23 |-> 1], 52)
                  -> "3.4028234663852886e38")

\* "{:?}" of HexBytes.
HexDigit(d) ==
    <<"0", "1", "2", "3", "4", "5", "6", "7", "8", "9",
      "a", "b", "c", "d", "e", "f">>[d + 1]

RECURSIVE LowerHex(_)
LowerHex(n) == IF n < 16 THEN HexDigit(n) ELSE LowerHex(n \div 16) \o HexDigit(n % 16)

\* {byte:02x}: lowercase hex, padded with zeros on the left to width 2.
Pad02x_NoPad(byte) == LowerHex(byte)

Pad02x(byte) ==
    IF Len(LowerHex(byte)) < 2 THEN "0" \o LowerHex(byte) ELSE LowerHex(byte)

RECURSIVE HexBytes_rest(_)
HexBytes_rest(bytes) ==
    IF bytes = <<>> THEN ""
    ELSE " " \o Pad02x(Head(bytes)) \o HexBytes_rest(Tail(bytes))

HexBytes_fmt(bytes) ==
    "[" \o (IF bytes # <<>> THEN Pad02x(Head(bytes)) \o HexBytes_rest(Tail(bytes))
            ELSE "")
        \o "]"

\* "{:?}" of DisplayValue(value) for an error: the error's Display text.
DisplayValue_fmt_Debug(value) == str_Debug(value)

DisplayValue_fmt(value) == str_Display(value)

\* "{:?}" of the &dyn Debug a default method of Visit hands to record_debug
\* (for record_debug itself: of the value it was called with).
Visit_debug_text(call) ==
    CASE call.method \in {"record_i64", "record_u64", "record_i128", "record_u128"}
            -> ToDecimal(call.value)
      [] call.method = "record_bool" -> (IF call.value THEN "true" ELSE "false")
      [] call.method = "record_f64" -> F64_debug(call.value)
      [] call.method = "record_str" -> str_Debug(call.value)
      [] call.method = "record_bytes" -> HexBytes_fmt(call.value)
      [] call.method = "record_error" -> DisplayValue_fmt(call.value)
      [] call.method = "record_debug" -> call.value

\* The record_debug calls one call on a visitor implementing only
\* record_debug ends in: every other method is the trait's default.
Visit_forward_Silent(call) ==
    IF call.method = "record_debug" THEN <<call>> ELSE <<>>

Visit_forward(call) ==
    IF call.method = "record_debug" THEN <<call>>
    ELSE <<VisitCall("record_debug", call.field, Visit_debug_text(call))>>

RECURSIVE Visit_default(_)
Visit_default(calls) ==
    IF calls = <<>> THEN <<>>
    ELSE Visit_forward(Head(calls)) \o Visit_default(Tail(calls))

RECURSIVE Visit_write(_, _)
Visit_write(out, calls) ==
    IF calls = <<>> THEN out
    ELSE Visit_write(out \o Visit_debug_text(Head(calls)), Tail(calls))

(***************************************************************************)
(* ValueSet.  A pair is [field, value] with value an Option<Value>.        *)
(***************************************************************************)
Pair(f, v) == [field |-> f, value |-> v]

ValueSet_callsite(vs_fields) == FieldSet_callsite(vs_fields)

\* The two tests of the loop body of ValueSet::record: the pair's value is
\* recorded iff the field is of this callsite and the value slot is Some.
ValueSet_record_pair_AnyCallsite(my_callsite, pair) == pair.value # None

ValueSet_record_pair(my_callsite, pair) ==
    IF Field_callsite(pair.field) # my_callsite THEN FALSE
    ELSE pair.value # None

\* The pair the for loop of ValueSet::record takes at step n (0-based).
ValueSet_record_iter_Reversed(vs_values, n) == vs_values[Len(vs_values) - n]

ValueSet_record_iter(vs_values, n) == vs_values[n + 1]

ValueSet_len_AllPairs(vs_fields, vs_values) == Len(vs_values)

ValueSet_len(vs_fields, vs_values) ==
    LET my_callsite == ValueSet_callsite(vs_fields)
    IN  Cardinality({j \in 1..Len(vs_values) :
                        Field_callsite(vs_values[j].field) = my_callsite})

ValueSet_is_empty_AnyAbsent(vs_fields, vs_values) ==
    LET my_callsite == ValueSet_callsite(vs_fields)
    IN  \E j \in 1..Len(vs_values) :
            \/ vs_values[j].value = None
            \/ Field_callsite(vs_values[j].field) # my_callsite

ValueSet_is_empty_EmptyIsAbsent(vs_fields, vs_values) ==
    LET my_callsite == ValueSet_callsite(vs_fields)
    IN  \A j \in 1..Len(vs_values) :
            \/ vs_values[j].value = None
            \/ vs_values[j].value = Some(Empty)
            \/ Field_callsite(vs_values[j].field) # my_callsite

ValueSet_is_empty(vs_fields, vs_values) ==
    LET my_callsite == ValueSet_callsite(vs_fields)
    IN  \A j \in 1..Len(vs_values) :
            \/ vs_values[j].value = None
            \/ Field_callsite(vs_values[j].field) # my_callsite

NoRet == [op |-> "none", arg |-> <<>>, val |-> <<>>]
Ret(op, arg, val) == [op |-> op, arg |-> arg, val |-> val]

Untracked == [tracked |-> FALSE, calls |-> None]
Tracked == [tracked |-> TRUE, calls |-> None]

ValueSet_record_enter ==
    /\ pc \in {"idle", "done"}
    /\ history' = IF history.tracked /\ pc = "done"
                  THEN [history EXCEPT !.calls = Some(visited)]
                  ELSE history
    /\ pc' = "record"
    /\ idx' = 0
    /\ recorded' = <<>>
    /\ visited' = <<>>
    /\ result' = ""
    /\ debugged' = <<>>
    /\ ret' = Ret("record", <<>>, <<>>)
    /\ UNCHANGED <<debug_assertions, fields, values, key, iter, yielded>>

ValueSet_record_next ==
    /\ pc = "record"
    /\ idx < Len(values)
    /\ LET my_callsite == ValueSet_callsite(fields)
           pair == ValueSet_record_iter(values, idx)
       IN  IF ValueSet_record_pair(my_callsite, pair)
           THEN LET calls == Value_record(pair.value[1], pair.field)
                IN  /\ recorded' = Append(recorded, pair)
                    /\ visited' = visited \o calls
                    /\ result' = Visit_write(result, calls)
                    /\ debugged' = debugged \o Visit_default(calls)
           ELSE UNCHANGED <<recorded, visited, result, debugged>>
    /\ idx' = idx + 1
    /\ UNCHANGED <<debug_assertions, fields, values, pc, key, ret, history,
                   iter, yielded>>

ValueSet_record_return_Drains ==
    /\ pc = "record"
    /\ idx = Len(values)
    /\ pc' = "done"
    /\ values' = <<>>
    /\ UNCHANGED <<debug_assertions, fields, idx, recorded, visited, result,
                   debugged, key, ret, history, iter, yielded>>

ValueSet_record_return ==
    /\ pc = "record"
    /\ idx = Len(values)
    /\ pc' = "done"
    /\ UNCHANGED <<debug_assertions, fields, values, idx, recorded, visited,
                   result, debugged, key, ret, history, iter, yielded>>

ValueSet_len_call ==
    /\ pc \in {"idle", "done"}
    /\ ret' = Ret("len", <<>>, ValueSet_len(fields, values))
    /\ UNCHANGED <<debug_assertions, fields, values, pc, idx, recorded,
                   visited, result, debugged, key, history, iter, yielded>>

ValueSet_is_empty_call ==
    /\ pc \in {"idle", "done"}
    /\ ret' = Ret("is_empty", <<>>, ValueSet_is_empty(fields, values))
    /\ UNCHANGED <<debug_assertions, fields, values, pc, idx, recorded,
                   visited, result, debugged, key, history, iter, yielded>>

ValueSet_callsite_call ==
    /\ pc \in {"idle", "done"}
    /\ ret' = Ret("callsite", <<>>, ValueSet_callsite(fields))
    /\ UNCHANGED <<debug_assertions, fields, values, pc, idx, recorded,
                   visited, result, debugged, key, history, iter, yielded>>

(***************************************************************************)
(* The ValueSets of Spec: every pair sequence of at most MaxPairs pairs    *)
(* over the Fields of the two test callsites, bound to either callsite's   *)
(* FieldSet, and the ValueSets the tests of the module build.              *)
(***************************************************************************)
TestFieldSets == {TEST_META_1, TEST_META_2}

FieldsOf(fs) == {FieldSet_field(fs, fs.names[j])[1] : j \in 1..Len(fs.names)}

TestFields == UNION {FieldsOf(fs) : fs \in TestFieldSets}

ValuePool == {Empty, I32(1)}

OptionPool == {None} \cup {Some(v) : v \in ValuePool}

PairPool == {Pair(f, v) : f \in TestFields, v \in OptionPool}

FieldSet_value_set(self, vals) == [fields |-> self, values |-> vals]

F1(name) == FieldSet_field(TEST_META_1, name)[1]
F2(name) == FieldSet_field(TEST_META_2, name)[1]

value_set_with_no_values_is_empty ==
    FieldSet_value_set(TEST_META_1,
        <<Pair(F1("foo"), None), Pair(F1("bar"), None), Pair(F1("baz"), None)>>)

empty_value_set_is_empty == FieldSet_value_set(TEST_META_1, <<>>)

value_sets_with_fields_from_other_callsites_are_empty ==
    FieldSet_value_set(TEST_META_2,
        <<Pair(F1("foo"), Some(I32(1))), Pair(F1("bar"), Some(I32(2))),
          Pair(F1("baz"), Some(I32(3)))>>)

sparse_value_sets_are_not_empty ==
    FieldSet_value_set(TEST_META_1,
        <<Pair(F1("foo"), None), Pair(F1("bar"), Some(I32(57))),
          Pair(F1("baz"), None)>>)

fields_from_other_callsets_are_skipped ==
    FieldSet_value_set(TEST_META_1,
        <<Pair(F1("foo"), None), Pair(F2("bar"), Some(I32(57))),
          Pair(F1("baz"), None)>>)

empty_fields_are_skipped ==
    FieldSet_value_set(TEST_META_1,
        <<Pair(F1("foo"), Some(Empty)), Pair(F1("bar"), Some(I32(57))),
          Pair(F1("baz"), Some(Empty))>>)

record_debug_fn ==
    FieldSet_value_set(TEST_META_1,
        <<Pair(F1("foo"), Some(I32(1))), Pair(F1("bar"), Some(I32(2))),
          Pair(F1("baz"), Some(I32(3)))>>)

TestValueSets ==
    {value_set_with_no_values_is_empty, empty_value_set_is_empty,
     value_sets_with_fields_from_other_callsites_are_empty,
     sparse_value_sets_are_not_empty, fields_from_other_callsets_are_skipped,
     empty_fields_are_skipped, record_debug_fn}

ValueSets ==
    {FieldSet_value_set(fs, vals) :
        fs \in TestFieldSets, vals \in BoundedSeq(PairPool, MaxPairs)}
    \cup TestValueSets

Init ==
    /\ debug_assertions \in BOOLEAN
    /\ \E vs \in ValueSets : fields = vs.fields /\ values = vs.values
    /\ pc = "idle"
    /\ idx = 0
    /\ recorded = <<>>
    /\ visited = <<>>
    /\ result = ""
    /\ debugged = <<>>
    /\ key = None
    /\ ret = NoRet
    /\ history = Untracked
    /\ iter = None
    /\ yielded = <<>>

Next ==
    \/ ValueSet_record_enter
    \/ ValueSet_record_next
    \/ ValueSet_record_return
    \/ ValueSet_len_call
    \/ ValueSet_is_empty_call
    \/ ValueSet_callsite_call

Spec == Init /\ [][Next]_vars

(***************************************************************************)
(* SpecFieldSet: a FieldSet `fields` built by FieldSet::new and the calls  *)
(* made on it and on the Field `key` obtained from it.  The other operand  *)
(* of a comparison is any FieldSet or Field the same program can build.    *)
(***************************************************************************)
Names == {"foo", "bar"}

Callsites == 1..NumCallsites

FieldSets ==
    {FieldSet_new(names, c) : names \in BoundedSeq(Names, MaxNames), c \in Callsites}
    \cup TestFieldSets

AllFields == UNION {FieldsOf(fs) : fs \in FieldSets}

LookupNames == Names \cup {"baz", "qux"}

FieldSet_field_call ==
    \E name \in LookupNames :
        /\ key' = FieldSet_field(fields, name)
        /\ ret' = Ret("field", name, key')
        /\ UNCHANGED <<debug_assertions, fields, values, pc, idx, recorded,
                       visited, result, debugged, history, iter, yielded>>

FieldSet_contains_call ==
    /\ key # None
    /\ \E self \in FieldSets :
           ret' = Ret("contains", <<self, key[1]>>, FieldSet_contains(self, key[1]))
    /\ UNCHANGED <<debug_assertions, fields, values, pc, idx, recorded,
                   visited, result, debugged, key, history, iter, yielded>>

FieldSet_eq_call ==
    /\ \E other \in FieldSets :
           ret' = Ret("FieldSet::eq", <<fields, other>>, FieldSet_eq(fields, other))
    /\ UNCHANGED <<debug_assertions, fields, values, pc, idx, recorded,
                   visited, result, debugged, key, history, iter, yielded>>

Field_eq_call ==
    /\ key # None
    /\ \E other \in AllFields :
           ret' = Ret("Field::eq", <<key[1], other>>, Field_eq(key[1], other))
    /\ UNCHANGED <<debug_assertions, fields, values, pc, idx, recorded,
                   visited, result, debugged, key, history, iter, yielded>>

\* Two Fields hashed, each into a fresh Hasher, as a hash map lookup does.
Field_hash_call ==
    /\ key # None
    /\ \E other \in AllFields :
           ret' = Ret("Field::hash", <<key[1], other>>,
                      <<Field_hash(key[1]), Field_hash(other)>>)
    /\ UNCHANGED <<debug_assertions, fields, values, pc, idx, recorded,
                   visited, result, debugged, key, history, iter, yielded>>

Field_clone_call ==
    /\ key # None
    /\ key' = Some(Field_clone(key[1]))
    /\ ret' = Ret("clone", key[1], key')
    /\ UNCHANGED <<debug_assertions, fields, values, pc, idx, recorded,
                   visited, result, debugged, history, iter, yielded>>

InitFieldSet ==
    /\ debug_assertions \in BOOLEAN
    /\ fields \in FieldSets
    /\ values = <<>>
    /\ pc = "idle"
    /\ idx = 0
    /\ recorded = <<>>
    /\ visited = <<>>
    /\ result = ""
    /\ debugged = <<>>
    /\ key = None
    /\ ret = NoRet
    /\ history = Untracked
    /\ iter = None
    /\ yielded = <<>>

NextFieldSet ==
    \/ FieldSet_field_call
    \/ FieldSet_contains_call
    \/ FieldSet_eq_call
    \/ Field_eq_call
    \/ Field_hash_call
    \/ Field_clone_call

SpecFieldSet == InitFieldSet /\ [][NextFieldSet]_vars

(***************************************************************************)
(* Properties of ValueSet, checked under Spec.                             *)
(***************************************************************************)
Own(pair) == Field_callsite(pair.field) = ValueSet_callsite(fields)

Present(pair) == pair.value # None

IsEmptyValue(pair) == Present(pair) /\ pair.value[1].ty = "Empty"

OwnPresent(pair) == Own(pair) /\ Present(pair)

Delivered(pair) == OwnPresent(pair) /\ ~IsEmptyValue(pair)

\* The call an integer value's record() makes for a pair: record_i64 with the
\* pair's field and the value.
IsCallFor(call, pair) ==
    /\ call.field = pair.field
    /\ call.method = "record_i64"
    /\ call.value = pair.value[1].v

\* C1: every call the visitor receives during record() carries a field whose
\* callsite is the ValueSet's own callsite, whatever foreign pairs the input
\* sequence holds.
C1_VisitedFieldsAreOwn ==
    \A k \in 1..Len(visited) :
        Field_callsite(visited[k].field) = ValueSet_callsite(fields)

C1_Witness ==
    /\ pc = "done"
    /\ Len(visited) > 0
    /\ \E j \in 1..Len(values) : ~Own(values[j]) /\ Present(values[j])
                                  /\ ~IsEmptyValue(values[j])

\* C2: record() invokes the value's record exactly once for each own-callsite
\* pair with a present value, in the order of the input sequence: after idx
\* loop steps the invocations are the own, present pairs among the first idx
\* pairs, in input order; the test record_debug_fn writes "123".
C2_RecordedInInputOrder ==
    /\ pc \in {"record", "done"} =>
           recorded = SelectSeq(SubSeq(values, 1, idx), OwnPresent)
    /\ (pc = "done" /\ FieldSet_value_set(fields, values) = record_debug_fn) =>
           result = "123"

C2_Witness ==
    /\ pc = "done"
    /\ Len(recorded) = 3
    /\ recorded[1].field.i = 2
    /\ recorded[2].field.i = 0
    /\ recorded[3].field.i = 1
    /\ Len(visited) = 3
    /\ visited[1].field.i = 2

\* C3: len() returns the number of pairs of this callsite whose value slot is
\* present, so it is 0 when every value is None.
C3_LenCountsPresentOwnPairs ==
    ret.op = "len" =>
        ret.val = Cardinality({j \in 1..Len(values) : OwnPresent(values[j])})

\* C4: is_empty() is true exactly when no pair is both of this callsite and
\* present; a present Empty sentinel of this callsite makes it false although
\* record() delivers nothing for it.
C4_IsEmptyIffNoOwnPresent ==
    ret.op = "is_empty" =>
        /\ ret.val = ~(\E j \in 1..Len(values) : OwnPresent(values[j]))
        /\ (Len(values) = 0 => ret.val)
        /\ ((\E j \in 1..Len(values) : Own(values[j]) /\ IsEmptyValue(values[j]))
               => ~ret.val)

C4_Witness ==
    /\ pc = "done"
    /\ ret.op = "is_empty"
    /\ ret.val = FALSE
    /\ visited = <<>>
    /\ \E j \in 1..Len(values) : Own(values[j]) /\ IsEmptyValue(values[j])

\* C5: a ValueSet whose pairs all carry Fields of another callsite is empty
\* even if every value is present: is_empty() is true, len() is 0 and record()
\* makes no visitor call.
C5_ForeignValueSetIsEmpty ==
    (\A j \in 1..Len(values) : ~Own(values[j])) =>
        /\ (ret.op = "is_empty" => ret.val)
        /\ (ret.op = "len" => ret.val = 0)
        /\ visited = <<>>
        /\ recorded = <<>>

C5_Witness ==
    /\ FieldSet_value_set(fields, values)
           = value_sets_with_fields_from_other_callsites_are_empty
    /\ pc = "done"
    /\ ret.op = "len"
    /\ ret.val = 0

\* C6: a pair carrying the Empty sentinel causes no visitor call, while every
\* other present pair of this callsite is delivered: when record() returns,
\* the visitor has received exactly one call for each own, present, non-Empty
\* pair, with that pair's field and value, in input order.
C6_EmptyNeverVisitsOthersDo ==
    /\ \A k \in 1..Len(visited) :
           \E j \in 1..Len(values) :
               Delivered(values[j]) /\ IsCallFor(visited[k], values[j])
    /\ pc = "done" =>
           LET want == SelectSeq(values, Delivered)
           IN  /\ Len(visited) = Len(want)
               /\ \A k \in 1..Len(want) : IsCallFor(visited[k], want[k])

C6_Witness ==
    /\ pc = "done"
    /\ Len(values) = 3
    /\ Delivered(values[1])
    /\ Own(values[2]) /\ IsEmptyValue(values[2])
    /\ Delivered(values[3])
    /\ Len(visited) = 2

(***************************************************************************)
(* Properties of FieldSet and Field, checked under SpecFieldSet.           *)
(***************************************************************************)
\* C7: contains(field) is true iff the field's callsite is this FieldSet's
\* callsite and its index is less than the number of names.
C7_ContainsIffInBounds ==
    ret.op = "contains" =>
        ret.val = (/\ Field_callsite(ret.arg[2]) = FieldSet_callsite(ret.arg[1])
                   /\ Field_index(ret.arg[2]) < Len(ret.arg[1].names))

\* C8: field(name) returns a Field of this FieldSet's callsite whose index is
\* the position of the name in the name sequence (the first one that equals
\* it), and None when no name equals the argument.
C8_FieldIndexIsPosition ==
    ret.op = "field" =>
        LET name == ret.arg
            r == ret.val
        IN  /\ (r = None) = (\A j \in 1..Len(fields.names) : fields.names[j] # name)
            /\ r # None =>
                   /\ Field_callsite(r[1]) = FieldSet_callsite(fields)
                   /\ r[1].fields.names = fields.names
                   /\ Field_index(r[1]) < Len(fields.names)
                   /\ fields.names[Field_index(r[1]) + 1] = name
                   /\ \A h \in 0..(Field_index(r[1]) - 1) : fields.names[h + 1] # name
            /\ fields.names = <<"foo", "bar", "baz">> =>
                   /\ name = "foo" => r = Some(MkField(0, fields))
                   /\ name = "bar" => r = Some(MkField(1, fields))
                   /\ name = "baz" => r = Some(MkField(2, fields))

C8_Witness ==
    /\ fields = TEST_META_1
    /\ ret.op = "field"
    /\ ret.arg = "baz"
    /\ ret.val # None
    /\ Field_index(ret.val[1]) = 2

\* C9: two Fields are equal iff they have the same callsite and the same
\* index, never by name; the Hasher is fed exactly (callsite, index), so equal
\* Fields feed equal input and Fields of different callsites different input.
C9_FieldEqAndHashByCallsiteAndIndex ==
    /\ ret.op = "Field::eq" =>
           LET a == ret.arg[1]
               b == ret.arg[2]
           IN  /\ ret.val = (a.fields.callsite = b.fields.callsite /\ a.i = b.i)
               /\ (a.fields.callsite # b.fields.callsite) => ~ret.val
    /\ ret.op = "Field::hash" =>
           LET a == ret.arg[1]
               b == ret.arg[2]
           IN  /\ ret.val[1] = <<a.fields.callsite, a.i>>
               /\ ret.val[2] = <<b.fields.callsite, b.i>>
               /\ Field_eq(a, b) => ret.val[1] = ret.val[2]
               /\ (a.fields.callsite # b.fields.callsite) => ret.val[1] # ret.val[2]

C9_Witness ==
    /\ ret.op = "Field::eq"
    /\ Field_name(ret.arg[1]) = Field_name(ret.arg[2])
    /\ ret.arg[1].i = ret.arg[2].i
    /\ ret.arg[1].fields.callsite # ret.arg[2].fields.callsite
    /\ ret.val = FALSE

\* C10: in a release build two FieldSets are equal iff their callsites are
\* equal, whatever their names; in a debug-assertions build iff their
\* callsites are equal and their name sequences identical.  In both builds
\* the equality is reflexive, symmetric and transitive.
C10_FieldSetEqByBuildMode ==
    ret.op = "FieldSet::eq" =>
        LET a == ret.arg[1]
            b == ret.arg[2]
        IN  /\ ~debug_assertions => ret.val = (a.callsite = b.callsite)
            /\ debug_assertions =>
                   ret.val = (a.callsite = b.callsite /\ a.names = b.names)
            /\ FieldSet_eq(a, a)
            /\ FieldSet_eq(b, a) = ret.val
            /\ \A c \in FieldSets :
                   (ret.val /\ FieldSet_eq(b, c)) => FieldSet_eq(a, c)

C10_Witness ==
    /\ ret.op = "FieldSet::eq"
    /\ ~debug_assertions
    /\ ret.arg[1].names # ret.arg[2].names
    /\ ret.val = TRUE

(***************************************************************************)
(* SpecFormat: fmt::Debug and fmt::Display of a ValueSet.  Both fold over  *)
(* self.values and, for every Some(val), call val.record(key, dbg) with    *)
(* the DebugStruct / DebugMap adapter as the visitor.  The adapters        *)
(* implement record_debug only: DebugStruct adds the entry                 *)
(* (field.name(), value), DebugMap the entry ("{}" of the field, value).   *)
(***************************************************************************)
RECURSIVE ValueSet_fmt_fold(_)
ValueSet_fmt_fold(vs_values) ==
    IF vs_values = <<>> THEN <<>>
    ELSE LET pair == Head(vs_values)
         IN  (IF pair.value # None
              THEN Value_record(pair.value[1], pair.field)
              ELSE <<>>) \o ValueSet_fmt_fold(Tail(vs_values))

Adapter_entries(calls) ==
    [k \in 1..Len(calls) |->
        [name |-> Field_name(calls[k].field), text |-> Visit_debug_text(calls[k])]]

ValueSet_fmt_debug ==
    /\ pc \in {"idle", "done"}
    /\ LET calls == ValueSet_fmt_fold(values)
       IN  ret' = Ret("fmt::Debug", <<>>,
                      [calls |-> calls,
                       entries |-> Adapter_entries(calls),
                       callsite |-> ValueSet_callsite(fields)])
    /\ UNCHANGED <<debug_assertions, fields, values, pc, idx, recorded,
                   visited, result, debugged, key, history, iter, yielded>>

ValueSet_fmt_display ==
    /\ pc \in {"idle", "done"}
    /\ LET calls == ValueSet_fmt_fold(values)
       IN  ret' = Ret("fmt::Display", <<>>,
                      [calls |-> calls, entries |-> Adapter_entries(calls)])
    /\ UNCHANGED <<debug_assertions, fields, values, pc, idx, recorded,
                   visited, result, debugged, key, history, iter, yielded>>

NextFormat ==
    \/ ValueSet_record_enter
    \/ ValueSet_record_next
    \/ ValueSet_record_return
    \/ ValueSet_fmt_debug
    \/ ValueSet_fmt_display

SpecFormat == Init /\ [][NextFormat]_vars

\* C11: the entries the Debug and Display adapters receive are exactly the
\* calls a visitor passed to record() on the same ValueSet receives, so a
\* foreign-callsite pair with a present value is never formatted.
C11_FormatAgreesWithRecord ==
    (pc = "done" /\ ret.op \in {"fmt::Debug", "fmt::Display"}) =>
        /\ ret.val.calls = visited
        /\ \A k \in 1..Len(ret.val.calls) :
               Field_callsite(ret.val.calls[k].field) = ValueSet_callsite(fields)

(***************************************************************************)
(* SpecValue: ValueSets over the catalogue of Value types, recorded        *)
(* through ValueSet::record into the debug-formatting visitor.             *)
(***************************************************************************)
F32(s, e, m) == [ty |-> "f32", v |-> [s |-> s, e |-> e, m |-> Mant(m, 23)]]
F64(s, e, m) == [ty |-> "f64", v |-> [s |-> s, e |-> e, m |-> Mant(m, 52)]]

FloatPool ==
    {F32(0, 127, <<1>>), F32(1, 128, <<0, 1, 1>>), F32(0, 0, <<>>), F32(1, 0, <<>>),
     F32(0, 255, <<>>), F32(1, 255, <<>>), F32(0, 255, <<1>>),
     F32(0, 0, Zeros(22) \o <<1>>), F32(0, 254, [j \in 1..23 |-> 1]),
     F64(0, 1023, <<1>>), F64(0, 1028, <<1, 1, 0, 0, 1>>), F64(1, 0, <<>>),
     F64(0, 2047, <<>>), F64(0, 2047, <<1>>), F64(0, 0, Zeros(51) \o <<1>>)}

IntPool == UNION {{[ty |-> ty, v |-> n] : n \in IntSamples(ty)} : ty \in IntTypes}

NonZeroPool ==
    UNION {{[ty |-> ty_to_nonzero(ty), v |-> n] : n \in IntSamples(ty) \ {0}} :
              ty \in IntTypes}

BoolPool == {[ty |-> "bool", v |-> b] : b \in BOOLEAN}

PrimitivePool == IntPool \cup NonZeroPool \cup BoolPool \cup FloatPool

Str(chars) == [ty |-> "str", v |-> chars]
Bytes(bytes) == [ty |-> "[u8]", v |-> bytes]
Ref(x) == [ty |-> "&", v |-> x]
RefMut(x) == [ty |-> "&mut", v |-> x]
Box(x) == [ty |-> "Box", v |-> x]

lol == <<"l", "o", "l">>
quoted == <<"a", "\"", "b">>

TextPool ==
    {[ty |-> ty, v |-> chars] :
        ty \in {"str", "String", "fmt::Arguments", "DisplayValue", "DebugValue"},
        chars \in {<<>>, <<" ">>, lol, quoted}}

ByteSamples == {0, 9, 10, 15, 16, 97, 171, 255}

BytesPool ==
    {Bytes(b) : b \in BoundedSeq(ByteSamples, MaxBytes)}
    \cup {Bytes(<<97, 98, 99>>), Bytes(<<192, 255, 238>>)}

ErrorTypes == {"dyn Error"} \cup ErrorMarkerTypes

ErrorPool == {[ty |-> ty, v |-> msg] : ty \in ErrorTypes, msg \in {lol, quoted}}

WrappingPool ==
    {[ty |-> "Wrapping", v |-> x] :
        x \in {[ty |-> "u8", v |-> 255], [ty |-> "i8", v |-> -1]}}

\* Values behind up to n layers of &, &mut and Box.
RECURSIVE Nested(_, _)
Nested(base, n) ==
    IF n = 0 THEN base
    ELSE LET inner == Nested(base, n - 1)
         IN  inner \cup {Ref(x) : x \in inner} \cup {RefMut(x) : x \in inner}
                   \cup {Box(x) : x \in inner}

NestedPool ==
    Nested({Empty, [ty |-> "i8", v |-> -128], Str(<<" ">>), Bytes(<<192, 255, 238>>)}
           \cup {e \in ErrorPool : e.v = lol}, MaxNesting)

CataloguePool ==
    {Empty} \cup PrimitivePool \cup TextPool \cup BytesPool \cup ErrorPool
    \cup WrappingPool \cup NestedPool

test_record_error ==
    FieldSet_value_set(TEST_META_1,
        <<Pair(F1("foo"), Some(Box([ty |-> "dyn Error + Send + Sync", v |-> lol]))),
          Pair(F1("bar"), Some(Empty)), Pair(F1("baz"), Some(Empty))>>)

test_record_bytes ==
    FieldSet_value_set(TEST_META_1,
        <<Pair(F1("foo"), Some(Ref(Bytes(<<97, 98, 99>>)))),
          Pair(F1("bar"), Some(Ref(Str(<<" ">>)))),
          Pair(F1("baz"), Some(Ref(Bytes(<<192, 255, 238>>))))>>)

\* Pairs of two-pair ValueSets: own and foreign fields, absent values and
\* one value of each kind.
MixedPairPool ==
    {Pair(f, v) :
        f \in {F1("foo"), F1("bar"), F2("bar")},
        v \in {None} \cup
              {Some(x) : x \in {Empty, Box(Empty), [ty |-> "bool", v |-> TRUE],
                                Str(lol), Bytes(<<97, 98, 99>>),
                                [ty |-> "dyn Error", v |-> lol]}}}

CatalogueValueSets ==
    {FieldSet_value_set(TEST_META_1, <<Pair(F1("foo"), Some(v))>>) :
        v \in CataloguePool}
    \cup {FieldSet_value_set(TEST_META_1, <<p, q>>) :
            p \in MixedPairPool, q \in MixedPairPool}
    \cup {test_record_error, test_record_bytes}

InitValue ==
    /\ debug_assertions \in BOOLEAN
    /\ \E vs \in CatalogueValueSets : fields = vs.fields /\ values = vs.values
    /\ pc = "idle"
    /\ idx = 0
    /\ recorded = <<>>
    /\ visited = <<>>
    /\ result = ""
    /\ debugged = <<>>
    /\ key = None
    /\ ret = NoRet
    /\ history = Untracked
    /\ iter = None
    /\ yielded = <<>>

SpecValue == InitValue /\ [][Next]_vars

\* The value of the single pair of a catalogue ValueSet.
TheValue == values[1].value[1]

\* The number a float denotes: class, sign, unbiased exponent of the leading
\* 1 and the fraction bits after it without trailing zeros.
RECURSIVE Trim(_)
Trim(m) == IF m # <<>> /\ m[Len(m)] = 0 THEN Trim(SubSeq(m, 1, Len(m) - 1)) ELSE m

FloatNumber(x, bias) ==
    IF x.e = 2 * bias + 1
    THEN IF x.m = Zeros(Len(x.m)) THEN <<"inf", x.s>> ELSE <<"NaN">>
    ELSE IF x.e = 0
    THEN IF x.m = Zeros(Len(x.m)) THEN <<"zero", x.s>>
         ELSE <<"finite", x.s, 1 - bias - FirstOne(x.m),
                Trim(SubSeq(x.m, FirstOne(x.m) + 1, Len(x.m)))>>
    ELSE <<"finite", x.s, x.e - bias, Trim(x.m)>>

\* The visitor method the catalogue names for a primitive type.
CatalogueMethod(ty) ==
    CASE ty \in {"u8", "u16", "u32", "usize", "u64"} -> "record_u64"
      [] ty \in {"i8", "i16", "i32", "isize", "i64"} -> "record_i64"
      [] ty = "u128" -> "record_u128"
      [] ty = "i128" -> "record_i128"
      [] ty = "bool" -> "record_bool"
      [] ty \in {"f32", "f64"} -> "record_f64"

PrimitiveBase(ty) == IF ty \in NonZeroTypes THEN NonZeroBase(ty) ELSE ty

SameNumber(ty, v, call) ==
    CASE ty = "f32" -> FloatNumber(call.value, 1023) = FloatNumber(v, 127)
      [] ty = "f64" -> FloatNumber(call.value, 1023) = FloatNumber(v, 1023)
      [] OTHER -> call.value = v

\* C12: a primitive value (integer, NonZero integer, bool, float) makes
\* exactly one visitor call, for its field, through the method the catalogue
\* names for its type (widened to 64 bits for the narrower integers, the
\* 128-bit and bool methods unchanged, f32 widened to f64), and the call
\* carries the same number.
C12_PrimitivesDispatchByCatalogue ==
    (pc = "done" /\ Len(values) = 1 /\ OwnPresent(values[1])
       /\ TheValue.ty \in IntTypes \cup NonZeroTypes \cup {"bool", "f32", "f64"})
    => /\ Len(visited) = 1
       /\ visited[1].field = values[1].field
       /\ visited[1].method = CatalogueMethod(PrimitiveBase(TheValue.ty))
       /\ SameNumber(TheValue.ty, TheValue.v, visited[1])

C12_Witness ==
    /\ pc = "done"
    /\ Len(values) = 1
    /\ values[1].value = Some([ty |-> "i8", v |-> -128])
    /\ visited = <<VisitCall("record_i64", values[1].field, -128)>>

\* The value a chain of forwarding wrappers ends in.
RECURSIVE Referent(_)
Referent(x) == IF x.ty \in ForwardingTypes THEN Referent(x.v) ELSE x

NonEmptyOwn(pair) == OwnPresent(pair) /\ Referent(pair.value[1]).ty # "Empty"

\* C13: every Visit method other than record_debug defaults to one
\* record_debug call with the same field and the debug view of the same
\* value: after record(), a visitor implementing only record_debug has
\* received exactly one record_debug call per present, non-Empty,
\* own-callsite pair, in the order of the pairs, each for the pair's field
\* and with the text of the typed call it stands for.
C13_DefaultsForwardToRecordDebug ==
    pc = "done" =>
        LET D == SelectSeq(values, NonEmptyOwn)
        IN  /\ Len(visited) = Len(D)
            /\ Len(debugged) = Len(D)
            /\ \A j \in 1..Len(D) :
                  /\ debugged[j].method = "record_debug"
                  /\ debugged[j].field = D[j].field
                  /\ visited[j].field = D[j].field
                  /\ debugged[j].value = Visit_debug_text(visited[j])

C13_Witness ==
    /\ pc = "done"
    /\ Len(values) = 2
    /\ Len(visited) = 2
    /\ visited[1].method = "record_bool"
    /\ visited[2].method = "record_error"
    /\ debugged = <<VisitCall("record_debug", values[1].field, "true"),
                    VisitCall("record_debug", values[2].field, "lol")>>

\* The display text of the errors recorded.
ErrorDisplay(msg) ==
    CASE msg = lol -> "lol"
      [] msg = quoted -> "a\"b"

\* C14: an error trait object, with or without Send/Sync and behind any
\* nesting of &, &mut and Box, makes exactly one record_error call; with the
\* default record_error that is one record_debug call whose text is the
\* error's display text, and the error followed by two Empty values
\* (test record_error) yields exactly the display text.
C14_ErrorsRecordDisplayText ==
    pc = "done" =>
        /\ (Len(values) = 1 /\ OwnPresent(values[1])
              /\ Referent(TheValue).ty \in ErrorTypes)
           => /\ visited = <<VisitCall("record_error", values[1].field,
                                       Referent(TheValue).v)>>
              /\ debugged = <<VisitCall("record_debug", values[1].field,
                                        ErrorDisplay(Referent(TheValue).v))>>
              /\ result = ErrorDisplay(Referent(TheValue).v)
        /\ (fields = test_record_error.fields /\ values = test_record_error.values)
           => /\ Len(visited) = 1
              /\ visited[1].method = "record_error"
              /\ result = "lol"

C14_Witness ==
    /\ pc = "done"
    /\ Len(values) = 1
    /\ values[1].value =
          Some(Box(RefMut([ty |-> "dyn Error + Send + Sync", v |-> lol])))
    /\ Len(visited) = 1
    /\ visited[1].method = "record_error"
    /\ result = "lol"

\* Two lowercase hex digits of the bytes recorded.
TwoHexDigits(byte) ==
    CASE byte = 0 -> "00" [] byte = 9 -> "09" [] byte = 10 -> "0a"
      [] byte = 15 -> "0f" [] byte = 16 -> "10" [] byte = 97 -> "61"
      [] byte = 98 -> "62" [] byte = 99 -> "63" [] byte = 171 -> "ab"
      [] byte = 192 -> "c0" [] byte = 238 -> "ee" [] byte = 255 -> "ff"

RECURSIVE SpaceSeparated(_)
SpaceSeparated(bytes) ==
    IF bytes = <<>> THEN ""
    ELSE IF Len(bytes) = 1 THEN TwoHexDigits(bytes[1])
    ELSE TwoHexDigits(bytes[1]) \o " " \o SpaceSeparated(Tail(bytes))

\* C15: the default record_bytes renders a byte sequence as "[", each byte
\* as two lowercase hex digits (a byte below 0x10 with its leading zero),
\* single spaces between bytes and none at the ends, then "]"; the empty
\* sequence is "[]", and test record_bytes yields [61 62 63]" "[c0 ff ee].
C15_BytesRenderAsHex ==
    pc = "done" =>
        /\ (Len(values) = 1 /\ OwnPresent(values[1])
              /\ Referent(TheValue).ty = "[u8]")
           => /\ Len(visited) = 1
              /\ visited[1].method = "record_bytes"
              /\ result = "[" \o SpaceSeparated(Referent(TheValue).v) \o "]"
              /\ Len(result) = IF Referent(TheValue).v = <<>> THEN 2
                               ELSE 3 * Len(Referent(TheValue).v) + 1
              /\ (Referent(TheValue).v = <<>> => result = "[]")
        /\ (fields = test_record_bytes.fields /\ values = test_record_bytes.values)
           => result = "[61 62 63]\" \"[c0 ff ee]"

C15_Witness ==
    /\ pc = "done"
    /\ Len(values) = 1
    /\ values[1].value = Some(Bytes(<<15, 16>>))
    /\ visited = <<VisitCall("record_bytes", values[1].field, <<15, 16>>)>>
    /\ result = "[0f 10]"

(***************************************************************************)
(* SpecReplay: the same ValueSet recorded again and again, with the calls  *)
(* of the record() completed before kept in history.                       *)
(***************************************************************************)
InitReplay ==
    /\ debug_assertions \in BOOLEAN
    /\ \E vs \in CatalogueValueSets \cup TestValueSets :
          fields = vs.fields /\ values = vs.values
    /\ pc = "idle"
    /\ idx = 0
    /\ recorded = <<>>
    /\ visited = <<>>
    /\ result = ""
    /\ debugged = <<>>
    /\ key = None
    /\ ret = NoRet
    /\ history = Tracked
    /\ iter = None
    /\ yielded = <<>>

SpecReplay == InitReplay /\ [][Next]_vars

\* C16: no step of record(), len(), is_empty() or callsite() changes the
\* pair sequence, the field names or the callsite identity of the ValueSet,
\* and a record() of a ValueSet recorded before delivers the same sequence
\* of visitor calls as the record() before it.
C16_RecordIsIdempotentAndPure ==
    /\ [][values' = values /\ fields' = fields]_vars
    /\ []((pc = "done" /\ history.calls # None) => visited = history.calls[1])

C16_Witness ==
    /\ pc = "done"
    /\ history.calls # None
    /\ Len(visited) = 2
    /\ visited = history.calls[1]

(***************************************************************************)
(* SpecIter: a FieldSet, the iterator FieldSet::iter returns, and the      *)
(* Fields obtained from field, Iter::next and clone.                       *)
(***************************************************************************)
\* Range<usize>::next on idxs = start..end: the index yielded (None at the
\* end) and the range left.
Range_next_Inclusive(idxs) ==
    IF idxs.start <= idxs.end
    THEN [item |-> Some(idxs.start), idxs |-> [idxs EXCEPT !.start = @ + 1]]
    ELSE [item |-> None, idxs |-> idxs]

Range_next(idxs) ==
    IF idxs.start < idxs.end
    THEN [item |-> Some(idxs.start), idxs |-> [idxs EXCEPT !.start = @ + 1]]
    ELSE [item |-> None, idxs |-> idxs]

FieldSet_iter(self) ==
    [idxs |-> [start |-> 0, end |-> FieldSet_len(self)],
     fields |-> FieldSet_new(self.names, FieldSet_callsite(self))]

\* Iter::next: the Option<Field> returned and the iterator after the call.
Iter_next(self) ==
    LET n == Range_next(self.idxs)
    IN  [item |-> IF n.item = None THEN None
                  ELSE Some(MkField(n.item[1], self.fields)),
         iter |-> [self EXCEPT !.idxs = n.idxs]]

\* Field::name indexes the name slice; None stands for the panic of an
\* index out of bounds.
Field_name_result(self) ==
    IF self.i < Len(self.fields.names) THEN Some(Field_name(self)) ELSE None

Exhausted(it) == it.idxs.start >= it.idxs.end

FieldSet_iter_call ==
    /\ iter' = Some(FieldSet_iter(fields))
    /\ yielded' = <<>>
    /\ history' = IF iter # None /\ Exhausted(iter[1])
                  THEN [history EXCEPT !.calls = Some(yielded)]
                  ELSE history
    /\ ret' = Ret("iter", <<>>, iter')
    /\ UNCHANGED <<debug_assertions, fields, values, pc, idx, recorded,
                   visited, result, debugged, key>>

Iter_next_call ==
    /\ iter # None
    /\ LET r == Iter_next(iter[1])
       IN  /\ iter' = Some(r.iter)
           /\ yielded' = IF r.item = None THEN yielded
                         ELSE Append(yielded, r.item[1])
           /\ key' = IF r.item = None THEN key ELSE r.item
           /\ ret' = Ret("next", <<>>, r.item)
    /\ UNCHANGED <<debug_assertions, fields, values, pc, idx, recorded,
                   visited, result, debugged, history>>

Field_name_call ==
    /\ key # None
    /\ ret' = Ret("name", key[1], Field_name_result(key[1]))
    /\ UNCHANGED <<debug_assertions, fields, values, pc, idx, recorded,
                   visited, result, debugged, key, history, iter, yielded>>

\* fields.field(name).map(|f| f.name())
FieldSet_field_name_call ==
    \E name \in LookupNames :
        LET f == FieldSet_field(fields, name)
        IN  /\ key' = f
            /\ ret' = Ret("field.name", name,
                          IF f = None THEN None ELSE Field_name_result(f[1]))
            /\ UNCHANGED <<debug_assertions, fields, values, pc, idx,
                           recorded, visited, result, debugged, history,
                           iter, yielded>>

\* fields.field(f.name()) for a Field f the iterator has yielded
Field_name_field_call ==
    /\ \E j \in 1..Len(yielded) :
          /\ Field_name_result(yielded[j]) # None
          /\ ret' = Ret("name.field", yielded[j],
                        FieldSet_field(fields, Field_name_result(yielded[j])[1]))
    /\ UNCHANGED <<debug_assertions, fields, values, pc, idx, recorded,
                   visited, result, debugged, key, history, iter, yielded>>

\* fields.contains(&f) for the Field f the caller holds
FieldSet_contains_own_call ==
    /\ key # None
    /\ ret' = Ret("contains own", key[1], FieldSet_contains(fields, key[1]))
    /\ UNCHANGED <<debug_assertions, fields, values, pc, idx, recorded,
                   visited, result, debugged, key, history, iter, yielded>>

InitIter ==
    /\ debug_assertions \in BOOLEAN
    /\ fields \in FieldSets
    /\ values = <<>>
    /\ pc = "idle"
    /\ idx = 0
    /\ recorded = <<>>
    /\ visited = <<>>
    /\ result = ""
    /\ debugged = <<>>
    /\ key = None
    /\ ret = NoRet
    /\ history = Tracked
    /\ iter = None
    /\ yielded = <<>>

NextIter ==
    \/ FieldSet_iter_call
    \/ Iter_next_call
    \/ FieldSet_field_call
    \/ Field_clone_call
    \/ Field_name_call
    \/ FieldSet_field_name_call
    \/ Field_name_field_call
    \/ FieldSet_contains_own_call

SpecIter == InitIter /\ [][NextIter]_vars

\* The Fields of indices 0..n-1 of the FieldSet, in ascending order.
FirstFields(n) == [j \in 1..n |-> MkField(j - 1, fields)]

\* C17: an iterator yields one Field per index 0..len-1 in ascending order,
\* each bound to the FieldSet's callsite, and then ends: every yielding
\* next() shortens what is left by one, next() returns None exactly when len
\* Fields were yielded; iter() called again starts at index 0 and a second
\* full iteration yields the sequence of the first.
C17_IterYieldsEachIndexOnce ==
    /\ [](iter # None =>
            /\ Len(yielded) <= Len(fields.names)
            /\ yielded = FirstFields(Len(yielded))
            /\ \A j \in 1..Len(yielded) :
                  Field_callsite(yielded[j]) = FieldSet_callsite(fields)
            /\ (ret.op = "next" /\ ret.val = None
                  => Len(yielded) = Len(fields.names))
            /\ (ret.op = "iter" => yielded = <<>> /\ iter[1].idxs.start = 0)
            /\ (Exhausted(iter[1]) /\ history.calls # None
                  => yielded = history.calls[1]))
    /\ [][ret'.op = "next" =>
            IF Len(yielded) < Len(fields.names)
            THEN /\ ret'.val = Some(MkField(Len(yielded), fields))
                 /\ yielded' = Append(yielded, ret'.val[1])
                 /\ iter'[1].idxs.end - iter'[1].idxs.start
                      = iter[1].idxs.end - iter[1].idxs.start - 1
            ELSE /\ ret'.val = None
                 /\ yielded' = yielded]_vars

C17_Witness ==
    /\ fields = TEST_META_1
    /\ iter # None
    /\ ret.op = "next"
    /\ ret.val = None
    /\ history.calls = Some(yielded)
    /\ yielded = <<MkField(0, fields), MkField(1, fields), MkField(2, fields)>>

\* C18: a Field obtained from field(), Iter::next or clone() has an index
\* less than the length of its own name sequence, so name() on it does not
\* index out of bounds, and the FieldSet it came from contains it.
C18_ObtainedFieldsAreInBounds ==
    /\ key # None =>
          /\ Field_index(key[1]) < Len(key[1].fields.names)
          /\ key[1].fields.names = fields.names
    /\ \A j \in 1..Len(yielded) :
          Field_index(yielded[j]) < Len(yielded[j].fields.names)
    /\ ret.op \in {"field", "next", "clone"} /\ ret.val # None =>
          Field_index(ret.val[1]) < Len(ret.val[1].fields.names)
    /\ ret.op = "name" => ret.val # None
    /\ ret.op = "contains own" => ret.val = TRUE

C18_Witness ==
    /\ ret.op = "contains own"
    /\ ret.val = TRUE
    /\ key # None
    /\ Len(yielded) = 2
    /\ key[1] = yielded[2]
    /\ Field_index(key[1]) = 1

Distinct(names) ==
    \A j, h \in 1..Len(names) : names[j] = names[h] => j = h

\* C19: for every name n of the FieldSet field(n).name() is n; when the
\* names are pairwise distinct field(f.name()) is f for every Field f the
\* iterator yields; when a name occurs more than once field(name) is the
\* Field of the lowest index with that name.
C19_NameLookupRoundTrips ==
    /\ ret.op = "field.name" =>
          ((\E j \in 1..Len(fields.names) : fields.names[j] = ret.arg)
              => ret.val = Some(ret.arg))
    /\ ret.op = "name.field" =>
          /\ ret.val # None
          /\ Distinct(fields.names) => ret.val = Some(ret.arg)
          /\ \A j \in 1..Len(fields.names) :
                fields.names[j] = fields.names[Field_index(ret.arg) + 1]
                   => Field_index(ret.val[1]) <= j - 1
          /\ fields.names[Field_index(ret.val[1]) + 1]
                = fields.names[Field_index(ret.arg) + 1]

C19_Witness ==
    /\ fields.names = <<"foo", "foo">>
    /\ ret.op = "name.field"
    /\ Field_index(ret.arg) = 1
    /\ ret.val = Some(MkField(0, fields))

\* C20: one record() makes at most len() visitor calls and none when
\* is_empty() is true.  The converse fails: a ValueSet whose present
\* own-callsite values are all Empty is not is_empty(), yet its record()
\* makes no call (C20_Witness).
C20_CallsBoundedByLen ==
    pc = "done" =>
        /\ ret.op = "len" => Len(visited) <= ret.val
        /\ (ret.op = "is_empty" /\ ret.val = TRUE) => visited = <<>>

C20_Witness ==
    /\ pc = "done"
    /\ ret.op = "is_empty"
    /\ ret.val = FALSE
    /\ visited = <<>>
    /\ recorded # <<>>
    /\ \A j \in 1..Len(values) : OwnPresent(values[j]) => IsEmptyValue(values[j])

====
